---- MODULE Spec2Model ----
(***************************************************************************)
(* Order ingestion-and-lookup pipeline of WB_Tech_L0: the Kafka consumer   *)
(* (kafka/kafka.go), the Ristretto-backed cache service                    *)
(* (caching/cache.go), the PostgreSQL store (data_base/data_base.go,       *)
(* schema in scripts/init.sh), the record codec (model/model.go) and the   *)
(* HTTP query handler (transport/transport.go), wired by main.go.          *)
(***************************************************************************)
EXTENDS Integers, Sequences, FiniteSets, TLC

(* ------------------------------ bounds --------------------------------- *)

\* capacity handed to NewCacheService (main.go sets 1024; scaled down)
cacheSize == 1

\* the item-count ceiling handed to ParseOrder as maxItems
MaxItems == 1

(* --------------------------- data model -------------------------------- *)

\* order_uid values; more than the cache can hold, so eviction happens
OrderUIDs == {1, 2}

\* the empty string, as r.URL.Query().Get returns for a missing parameter
EmptyUID == 0

\* chrt_id values; enough of them to build an order above the ceiling
ChartIDs == 1..(MaxItems + 1)

\* contents of the remaining header / address / payment columns
Contents == {"WBIL"}

\* payment.transaction of an order: its own uid, or a foreign one
ForeignTx == Cardinality(OrderUIDs) + 1

\* date_created as JSON documents carry it: an RFC 3339 text, which names a
\* whole second
Timestamps == {1, 2}

\* resolution of the clock: time.Time values (ISO8601Time) count ticks, this
\* many to the second
TicksPerSecond == 2

\* the time.Time values within the seconds of Timestamps
Instants ==
    {sec * TicksPerSecond + f : sec \in Timestamps, f \in 0..(TicksPerSecond - 1)}

\* ISO8601Time.MarshalJSON: Format(time.RFC3339), which writes the second and
\* leaves out its fraction
MarshalJSON(t) == t \div TicksPerSecond

\* ISO8601Time.UnmarshalJSON: time.Parse(time.RFC3339, str) of a well-formed
\* text
UnmarshalJSON(str) == str * TicksPerSecond

\* the nil *model.OrderDetails
NoOrder == [id |-> EmptyUID]

\* the Products of an order: <<>>, <<1>>, <<1, 2>>, ... up to one item above
\* the ceiling, an item being its chrt_id
ItemLists == {[k \in 1..n |-> k] : n \in 0..(MaxItems + 1)}

\* model.OrderDetails as a JSON document holds it: header, Address, Payment,
\* Products, date_created as text
OrderDetails ==
    { [id |-> i, track |-> v, addr |-> v, pay |-> [tx |-> t, amount |-> v],
       items |-> it, ts |-> ts] :
        i \in OrderUIDs, v \in Contents, t \in {ForeignTx} \cup OrderUIDs,
        it \in ItemLists, ts \in Timestamps }

\* orders of every shape, all created at the earliest date: the transaction
\* is the order's uid or, for an order without items, a foreign one
StreamOrders ==
    {o \in OrderDetails :
        /\ o.pay.tx = o.id \/ (o.pay.tx = ForeignTx /\ o.items = <<>>)
        /\ \A t \in Timestamps : o.ts <= t}

\* well-formed orders (own transaction, items within the ceiling) of every
\* creation date
DatedOrders ==
    {o \in OrderDetails : o.pay.tx = o.id /\ Len(o.items) <= MaxItems}

\* a valid Order of the data model: transaction = uid, items within the ceiling
ValidOrder(o) == o.pay.tx = o.id /\ Len(o.items) <= MaxItems

(* ------------------------- durable store ------------------------------- *)

\* the tables of scripts/init.sh, empty as the script leaves them; the rows
\* of delivery are indexed by their SERIAL id
EmptyDB ==
    [delivery |-> <<>>, payment |-> <<>>, orders |-> <<>>, items |-> <<>>,
     conn |-> {}]

\* where a store call can be made to fail (connection loss, I/O error)
AddFaults == {"none", "begin", "delivery", "payment", "orders", "items", "commit"}
GetFaults == {"none", "orders", "delivery", "payment", "items"}

\* INSERT INTO delivery ... RETURNING id: the row gets a fresh id
InsertDelivery(t, o) ==
    [id |-> Len(t.delivery) + 1, db |-> [t EXCEPT !.delivery = Append(@, o.addr)]]

\* INSERT INTO payment; transaction is the primary key
InsertPayment(t, o) ==
    IF o.pay.tx \in DOMAIN t.payment
    THEN [ok |-> FALSE, db |-> t]
    ELSE [ok |-> TRUE, db |-> [t EXCEPT !.payment = @ @@ (o.pay.tx :> o.pay)]]

\* INSERT INTO orders; order_uid is the primary key, delivery_id and
\* payment_id reference the two rows written just before
InsertOrder(t, o, deliveryID) ==
    IF o.id \in DOMAIN t.orders
    THEN [ok |-> FALSE, db |-> t]
    ELSE [ok |-> TRUE,
          db |-> [t EXCEPT !.orders = @ @@ (o.id :>
                     [track |-> o.track, delivery_id |-> deliveryID,
                      payment_id |-> o.pay.tx, date_created |-> o.ts])]]

RECURSIVE InsertItems(_, _, _)
\* the loop over order.Products: INSERT INTO items; chrt_id is the primary key
InsertItems(t, items, fault) ==
    IF items = <<>> THEN [ok |-> TRUE, db |-> t]
    ELSE IF fault = "items" \/ Head(items) \in DOMAIN t.items
    THEN [ok |-> FALSE, db |-> t]
    ELSE InsertItems([t EXCEPT !.items = @ @@ (Head(items) :> [chrt |-> Head(items)])],
                     Tail(items), fault)

\* a rollback that leaves the rows of the failed transaction in place
RollbackNone(d, t) == t

\* defer tx.Rollback: d is the store at Begin, t the transaction's view of it
\* when the call returns; the rows the transaction wrote vanish
Rollback(d, t) == d

\* dbService.AddOrder: one transaction over delivery, payment, orders, items.
\* err is the error returned, db the store afterwards, tx the transaction's
\* view of the store when the call returned.
DbAddOrder(d, o, fault) ==
    IF fault = "begin" THEN [err |-> "StoreError", db |-> d, tx |-> d]
    ELSE IF fault = "delivery"
    THEN [err |-> "StoreError", db |-> Rollback(d, d), tx |-> d]
    ELSE LET r1 == InsertDelivery(d, o)
             r2 == InsertPayment(r1.db, o)
         IN IF fault = "payment" \/ ~r2.ok
            THEN [err |-> "StoreError", db |-> Rollback(d, r2.db), tx |-> r2.db]
            ELSE LET r3 == InsertOrder(r2.db, o, r1.id)
                 IN IF fault = "orders" \/ ~r3.ok
                    THEN [err |-> "StoreError", db |-> Rollback(d, r3.db), tx |-> r3.db]
                    ELSE LET r4 == InsertItems(r3.db, o.items, fault)
                         IN IF ~r4.ok \/ fault = "commit"
                            THEN [err |-> "StoreError", db |-> Rollback(d, r4.db),
                                  tx |-> r4.db]
                            ELSE [err |-> "nil", db |-> r4.db, tx |-> r4.db]

RECURSIVE SetToSeq(_)
\* the rows of a result set, in ascending key order
SetToSeq(S) ==
    IF S = {} THEN <<>>
    ELSE LET m == CHOOSE x \in S : \A y \in S : x <= y
         IN <<m>> \o SetToSeq(S \ {m})

\* SELECT ... FROM items WHERE chrt_id IN (SELECT chrt_id FROM order_item_conn
\* WHERE order_uid = $1)
SelectItems(d, uid) ==
    SetToSeq({c \in DOMAIN d.items : <<uid, c>> \in d.conn})

\* dbService.GetOrder: the orders row, then its delivery, payment and items
DbGetOrder(d, uid, fault) ==
    IF fault = "orders" THEN [err |-> "StoreError", order |-> NoOrder]
    ELSE IF uid \notin DOMAIN d.orders THEN [err |-> "NotFound", order |-> NoOrder]
    ELSE LET row == d.orders[uid]
         IN IF fault = "delivery" THEN [err |-> "StoreError", order |-> NoOrder]
            ELSE IF row.delivery_id \notin DOMAIN d.delivery
            THEN [err |-> "NotFound", order |-> NoOrder]
            ELSE IF fault = "payment" THEN [err |-> "StoreError", order |-> NoOrder]
            ELSE IF row.payment_id \notin DOMAIN d.payment
            THEN [err |-> "NotFound", order |-> NoOrder]
            ELSE IF fault = "items" THEN [err |-> "StoreError", order |-> NoOrder]
            ELSE [err |-> "nil",
                  order |-> [id |-> uid, track |-> row.track,
                             addr |-> d.delivery[row.delivery_id],
                             pay |-> d.payment[row.payment_id],
                             items |-> SelectItems(d, uid),
                             ts |-> row.date_created]]

\* the same query with ORDER BY date_created ASC: the oldest orders
GetOldestOrderIDs(d, limit) ==
    LET S == DOMAIN d.orders
        n == IF Cardinality(S) < limit THEN Cardinality(S) ELSE limit
        ts(u) == d.orders[u].date_created
    IN { s \in [1..n -> S] :
           /\ \A i, j \in 1..n : i < j => s[i] # s[j] /\ ts(s[i]) <= ts(s[j])
           /\ \A u \in S : (\A i \in 1..n : s[i] # u) =>
                              \A i \in 1..n : ts(s[i]) <= ts(u) }

\* SELECT order_uid FROM orders ORDER BY date_created DESC LIMIT $1: every
\* list the query can return (rows with equal date_created come in any order)
GetRecentOrderIDs(d, limit) ==
    LET S == DOMAIN d.orders
        n == IF Cardinality(S) < limit THEN Cardinality(S) ELSE limit
        ts(u) == d.orders[u].date_created
    IN { s \in [1..n -> S] :
           /\ \A i, j \in 1..n : i < j => s[i] # s[j] /\ ts(s[i]) >= ts(s[j])
           /\ \A u \in S : (\A i \in 1..n : s[i] # u) =>
                              \A i \in 1..n : ts(s[i]) >= ts(u) }

(* --------------------------- record codec ------------------------------ *)

\* a message value: a JSON document of the Order schema, the same with one
\* more top-level field, a document that is not JSON of that shape, or one
\* whose date_created is not RFC 3339
Payloads ==
    {[form |-> f, order |-> o] : f \in {"ok", "extra"}, o \in StreamOrders}
    \cup {[form |-> "badjson", order |-> NoOrder], [form |-> "badtime", order |-> NoOrder]}

\* the message values of a topic of well-formed, dated orders, with the
\* undecodable values among them
Topic ==
    {[form |-> "ok", order |-> o] : o \in DatedOrders}
    \cup {[form |-> "badjson", order |-> NoOrder], [form |-> "badtime", order |-> NoOrder]}

\* json.Marshal(order), as SendOrder calls it: the document of a
\* model.OrderDetails value
Marshal(o) == [form |-> "ok", order |-> [o EXCEPT !.ts = MarshalJSON(@)]]

\* the model.OrderDetails values that decoding the documents of S yields
Decoded(S) == {[o EXCEPT !.ts = UnmarshalJSON(@)] : o \in S}

\* model.NewFakeOrder(maxItems): the generated order o, cut to maxItems
\* products, with time.Now() as its creation timestamp
NewFakeOrder(o, now, maxItems) ==
    [o EXCEPT !.items = IF Len(@) > maxItems THEN SubSeq(@, 1, maxItems) ELSE @,
              !.ts = now]

\* model.ParseOrder: closed schema (DisallowUnknownFields), then the ceiling
ParseOrder(data, maxItems) ==
    IF data.form # "ok" THEN [err |-> "invalid JSON structure", order |-> NoOrder]
    ELSE IF Len(data.order.items) > maxItems
    THEN [err |-> "too many products in the order", order |-> NoOrder]
    ELSE [err |-> "nil", order |-> [data.order EXCEPT !.ts = UnmarshalJSON(@)]]

\* kafkaService.decodeOrder: json.Unmarshal, which skips unknown fields and
\* knows no ceiling
decodeOrder(data) ==
    IF data.form \in {"badjson", "badtime"}
    THEN [err |-> "invalid order format in Kafka message", order |-> NoOrder]
    ELSE [err |-> "nil", order |-> [data.order EXCEPT !.ts = UnmarshalJSON(@)]]

(* ---------------------------- cache layer ------------------------------ *)

EmptyCache == [u \in OrderUIDs |-> NoOrder]

Cached(c) == {u \in OrderUIDs : c[u] # NoOrder}

\* a cache without a cost budget: every Set is admitted, nothing is evicted
cacheSetUnbounded(c, key, value) == {[c EXCEPT ![key] = value]}

\* cache.Set(key, value, 1) followed by cache.Wait(), on a Ristretto cache
\* with MaxCost = cacheSize: every content the cache can have afterwards.
\* A key already held is updated; a new key is admitted while there is room;
\* in a full cache the policy either rejects the new key or evicts one
\* sampled victim for it.
cacheSet(c, key, value) ==
    IF key \in Cached(c) \/ Cardinality(Cached(c)) < cacheSize
    THEN {[c EXCEPT ![key] = value]}
    ELSE {c} \cup {[c EXCEPT ![v] = NoOrder, ![key] = value] : v \in Cached(c)}

\* a lookup that returns whatever entry the cache holds, whatever the key
getFromCacheAnyKey(c, orderUID) ==
    IF Cached(c) = {} THEN [order |-> NoOrder, found |-> FALSE]
    ELSE [order |-> c[CHOOSE u \in Cached(c) : TRUE], found |-> TRUE]

\* cacheService.getFromCache
getFromCache(c, orderUID) ==
    [order |-> c[orderUID], found |-> c[orderUID] # NoOrder]

\* cacheService.addToCache
addToCache(c, orderUID, order) == cacheSet(c, orderUID, order)

\* an AddOrder that logs the store's error and returns nil
AddOrderSwallowsError(c, d, order, fault) ==
    LET r == DbAddOrder(d, order, fault)
    IN {[cache |-> c2, db |-> r.db, err |-> "nil", dbErr |-> r.err,
         wrote |-> r.tx # d, admitted |-> c2[order.id] = order, dbCalls |-> 1] :
            c2 \in cacheSet(c, order.id, order)}

\* an AddOrder that takes the entry back out of the cache when the store fails
AddOrderUndoesAdmission(c, d, order, fault) ==
    LET r == DbAddOrder(d, order, fault)
    IN {[cache |-> IF r.err = "nil" THEN c2 ELSE [c2 EXCEPT ![order.id] = NoOrder],
         db |-> r.db, err |-> r.err, dbErr |-> r.err,
         wrote |-> r.tx # d, admitted |-> c2[order.id] = order, dbCalls |-> 1] :
            c2 \in cacheSet(c, order.id, order)}

\* the outcomes of cacheService.AddOrder(order): cache.Set, cache.Wait, then
\* db.AddOrder; the error of the store is the error of the call
AddOrderOutcomes(c, d, order, fault) ==
    LET r == DbAddOrder(d, order, fault)
    IN {[cache |-> c2, db |-> r.db, err |-> r.err, dbErr |-> r.err,
         wrote |-> r.tx # d, admitted |-> c2[order.id] = order, dbCalls |-> 1] :
            c2 \in cacheSet(c, order.id, order)}

\* a GetOrder that asks the store before it looks into the cache
GetOrderStoreFirst(c, d, orderUID, fault) ==
    LET hit == getFromCache(c, orderUID)
        r == DbGetOrder(d, orderUID, fault)
    IN IF hit.found
       THEN {[cache |-> c, err |-> "nil", order |-> hit.order, hit |-> TRUE,
              dbCalls |-> 1]}
       ELSE IF r.err # "nil"
       THEN {[cache |-> c, err |-> r.err, order |-> NoOrder, hit |-> FALSE,
              dbCalls |-> 1]}
       ELSE {[cache |-> c2, err |-> "nil", order |-> r.order, hit |-> FALSE,
              dbCalls |-> 1] : c2 \in cacheSet(c, orderUID, r.order)}

\* the outcomes of cacheService.GetOrder(orderUID): the cached copy, or the
\* store's answer, which is then put into the cache
GetOrderOutcomes(c, d, orderUID, fault) ==
    LET hit == getFromCache(c, orderUID)
        r == DbGetOrder(d, orderUID, fault)
    IN IF hit.found
       THEN {[cache |-> c, err |-> "nil", order |-> hit.order, hit |-> TRUE,
              dbCalls |-> 0]}
       ELSE IF r.err # "nil"
       THEN {[cache |-> c, err |-> r.err, order |-> NoOrder, hit |-> FALSE,
              dbCalls |-> 1]}
       ELSE {[cache |-> c2, err |-> "nil", order |-> r.order, hit |-> FALSE,
              dbCalls |-> 1] : c2 \in addToCache(c, orderUID, r.order)}

RECURSIVE WarmUp(_, _, _, _)
\* the fetch tasks of loadCache, one per listed id; failed holds the ids whose
\* db.GetOrder fails, which are skipped
WarmUp(c, d, ids, failed) ==
    IF ids = <<>> THEN {c}
    ELSE IF Head(ids) \in failed \/ DbGetOrder(d, Head(ids), "none").err # "nil"
    THEN WarmUp(c, d, Tail(ids), failed)
    ELSE UNION {WarmUp(c2, d, Tail(ids), failed) :
                   c2 \in cacheSet(c, Head(ids), DbGetOrder(d, Head(ids), "none").order)}

\* cacheService.loadCache on a fresh cache: the id list, then the fetches
loadCache(d, listFails, failed) ==
    IF listFails THEN {[err |-> "StoreError", cache |-> EmptyCache]}
    ELSE {[err |-> "nil", cache |-> c] :
             c \in UNION {WarmUp(EmptyCache, d, ids, failed) :
                             ids \in GetRecentOrderIDs(d, cacheSize)}}

(* ------------------------------ warm-up -------------------------------- *)

\* no fetch task
NoTasks == [u \in OrderUIDs |-> "none"]

\* a loadCache that goes on with an empty list when the id query fails
spawnIgnoresListError(d, listFails) ==
    IF listFails THEN {[err |-> "nil", tasks |-> NoTasks]}
    ELSE {[err |-> "nil",
           tasks |-> [u \in OrderUIDs |->
                        IF \E i \in DOMAIN ids : ids[i] = u THEN "run" ELSE "none"]] :
             ids \in GetRecentOrderIDs(d, cacheSize)}

\* cacheService.loadCache up to wg.Wait(): GetRecentOrderIDs(s.maxSize), whose
\* error is returned, then one fetch task per listed id
spawnFetchTasks(d, listFails) ==
    IF listFails THEN {[err |-> "StoreError", tasks |-> NoTasks]}
    ELSE {[err |-> "nil",
           tasks |-> [u \in OrderUIDs |->
                        IF \E i \in DOMAIN ids : ids[i] = u THEN "run" ELSE "none"]] :
             ids \in GetRecentOrderIDs(d, cacheSize)}

\* the body of one fetch task: db.GetOrder(id), on an error a warning and
\* nothing else, otherwise cache.Set(id, order, 1) and cache.Wait()
fetchTask(c, d, id, fault) ==
    LET r == DbGetOrder(d, id, fault)
    IN IF r.err # "nil" THEN {[cache |-> c, state |-> "failed"]}
       ELSE {[cache |-> c2, state |-> "done"] : c2 \in cacheSet(c, id, r.order)}

\* a loadCache that returns without waiting for its fetch tasks
wgNoWait(t) == TRUE

\* wg.Wait(): returns when every fetch task has called wg.Done()
wgWait(t) == \A u \in OrderUIDs : t[u] # "run"

(* ------------------------- stream consumer ----------------------------- *)

\* messages the topic delivers to one reader
MaxMsgs == 2

\* a listener that ends its loop on a message it cannot decode
afterDecodeReturns(err) == IF err # "nil" THEN "stopped" ELSE "add"

\* where the listener loop goes after decodeOrder: on an error `continue`,
\* back to the select; otherwise on to store.AddOrder
afterDecode(err) == IF err # "nil" THEN "select" ELSE "add"

\* a listener that calls AddOrder again when it failed
afterAddOrderRetries(err) == IF err # "nil" THEN "add" ELSE "select"

\* where the listener loop goes after store.AddOrder: back to the select,
\* through `continue` on an error and through the end of the body otherwise
afterAddOrder(err) == "select"

(* --------------------------- callers ----------------------------------- *)

\* goroutines that call the cache service at the same time
Procs == {1, 2}

(* ------------------------- query surface ------------------------------- *)

\* the status httpTransport.orderHandler writes for a GetOrder outcome
StatusOf(err) == IF err # "nil" THEN 500 ELSE 200

(* ------------------------------ state ---------------------------------- *)

VARIABLES
    phase,      \* the process: "new", "warming" (inside loadCache), "running",
                \* "failed" (os.Exit(1)), "exited"
    cancelled,  \* app.Ctx is done
    db,         \* the PostgreSQL tables
    cache,      \* the Ristretto cache of the running process
    res,        \* what the process has opened and not closed: the pgx pool
                \* ("pool"), the Kafka reader and writer
    tasks,      \* per listed id, the fetch goroutine of loadCache: "none",
                \* "run", "done", "failed"
    kpc,        \* the listener goroutine: "off", "select", "read", "decode",
                \* "add", "stopped"
    closed,     \* calls of reader.Close() by the running process
    msg,        \* the message the listener holds between ReadMessage and the
                \* end of its processing
    offset,     \* messages the reader of the running process has delivered
    adds,       \* AddOrder calls the listener made for the message it holds
    last,       \* the last call served: operation, arguments, outcome
    attempted,  \* the uids AddOrder was ever called with
    acked,      \* per uid, the order whose AddOrder returned nil, if any
    codec,      \* a producer: the order it made, the document it sent and
                \* what decoding that document gave
    calls       \* concurrent callers of the cache service, each with the
                \* call it is in, and per uid the order offered to AddOrder

vars ==
    <<phase, cancelled, db, cache, res, tasks, kpc, closed, msg, offset, adds,
      last, attempted, acked, codec, calls>>

\* what the statement-by-statement listener adds to the state
inflight == <<msg, offset, adds>>

\* no message in hand
NoMsg == [form |-> "none", order |-> NoOrder]

\* what the producer and the concurrent callers add to the state
clients == <<codec, calls>>

\* a producer that has not made an order yet
NoCodec ==
    [stage |-> "idle", order |-> NoOrder, data |-> NoMsg,
     back |-> [err |-> "nil", order |-> NoOrder]]

\* a caller that is in no call and has made none
Idle ==
    [pc |-> "idle", op |-> "none", uid |-> EmptyUID, arg |-> NoOrder,
     got |-> NoOrder, quiet |-> FALSE, err |-> "nil", order |-> NoOrder]

\* no caller in a call, no order offered
NoCalls == [proc |-> [p \in Procs |-> Idle], offered |-> EmptyCache]

\* op: "NewApp" is the construction of the services, "AddOrder" and
\* "GetOrder" are calls of the cache service (GetOrder through orderHandler,
\* which adds the status), "drop" a message the listener dropped undecoded,
\* "reject" a request orderHandler refused; skipped holds the ids whose
\* warm-up fetch failed
NoCall ==
    [op |-> "none", uid |-> EmptyUID, form |-> "none", arg |-> NoOrder,
     wrote |-> FALSE, dbErr |-> "nil", err |-> "nil", order |-> NoOrder,
     hit |-> FALSE, admitted |-> FALSE, dbCalls |-> 0, status |-> 0,
     skipped |-> {}]

Init ==
    /\ phase = "new"
    /\ cancelled = FALSE
    /\ db = EmptyDB
    /\ cache = EmptyCache
    /\ res = {}
    /\ tasks = NoTasks
    /\ kpc = "off"
    /\ closed = 0
    /\ msg = NoMsg
    /\ offset = 0
    /\ adds = 0
    /\ last = NoCall
    /\ attempted = {}
    /\ acked = EmptyCache
    /\ codec = NoCodec
    /\ calls = NoCalls

(* ----------------------------- actions --------------------------------- *)

\* main up to the fetch tasks of loadCache: NewApp makes the context, the
\* pool (initDatabase) and a fresh cache, NewCacheService calls loadCache, which lists the
\* recent ids and starts one fetch task per id; a failed list ends the process
Main ==
    /\ phase \in {"new", "failed", "exited"}
    /\ \E listFails \in BOOLEAN :
         \E r \in spawnFetchTasks(db, listFails) :
            /\ phase' = IF r.err # "nil" THEN "failed" ELSE "warming"
            /\ tasks' = r.tasks
            /\ last' = [NoCall EXCEPT !.op = "NewApp", !.err = r.err,
                                      !.dbErr = IF listFails THEN "StoreError"
                                                ELSE "nil"]
    /\ cache' = EmptyCache
    /\ res' = {"pool"}
    /\ cancelled' = FALSE
    /\ closed' = 0
    /\ UNCHANGED <<db, kpc, inflight, attempted, acked, clients>>

\* one fetch task of loadCache runs: db.GetOrder, cache.Set, cache.Wait
FetchTask ==
    /\ \E id \in OrderUIDs, fault \in GetFaults :
         /\ tasks[id] = "run"
         /\ \E r \in fetchTask(cache, db, id, fault) :
              /\ cache' = r.cache
              /\ tasks' = [tasks EXCEPT ![id] = r.state]
    /\ UNCHANGED <<phase, cancelled, db, res, kpc, closed, inflight, last,
                   attempted, acked, clients>>

\* wg.Wait() returns, and with it loadCache and NewCacheService; NewApp makes
\* the Kafka reader and writer and the transport, and main starts the
\* listener and the HTTP transport
Start ==
    /\ phase = "warming"
    /\ wgWait(tasks)
    /\ phase' = "running"
    /\ kpc' = "select"
    /\ last' = [last EXCEPT !.skipped = {u \in OrderUIDs : tasks[u] = "failed"}]
    /\ tasks' = [u \in OrderUIDs |-> IF tasks[u] = "run" THEN "run" ELSE "none"]
    /\ res' = res \cup {"reader", "writer"}
    /\ UNCHANGED <<cancelled, db, cache, closed, inflight, attempted, acked, clients>>

\* an interrupt, or app.CancelFunc: the context is done
Cancel ==
    /\ phase \in {"warming", "running"}
    /\ ~cancelled
    /\ cancelled' = TRUE
    /\ UNCHANGED <<phase, db, cache, tasks, res, kpc, closed, inflight, last,
                   attempted, acked, clients>>

\* main returns after <-app.Ctx.Done() and the sleep: the process is gone,
\* and its cache and goroutines with it; res keeps what it had not closed
Exit ==
    /\ phase = "running"
    /\ cancelled
    /\ phase' = "exited"
    /\ cache' = EmptyCache
    /\ tasks' = NoTasks
    /\ kpc' = "off"
    /\ msg' = NoMsg
    /\ offset' = 0
    /\ adds' = 0
    /\ last' = NoCall
    /\ UNCHANGED <<cancelled, db, res, closed, attempted, acked, clients>>

\* a select whose ctx.Done() branch closes the reader and falls through to
\* ReadMessage instead of returning
SelectWithoutReturn ==
    /\ kpc = "select"
    /\ kpc' = "read"
    /\ closed' = IF cancelled THEN closed + 1 ELSE closed
    /\ res' = IF cancelled THEN res \ {"reader"} ELSE res
    /\ UNCHANGED <<phase, cancelled, db, cache, tasks, inflight, last, attempted,
                   acked, clients>>

\* StartListening, the select: ctx.Done() closes the reader and ends the
\* goroutine, default goes on to ReadMessage
Select ==
    /\ kpc = "select"
    /\ IF cancelled
       THEN kpc' = "stopped" /\ closed' = closed + 1 /\ res' = res \ {"reader"}
       ELSE kpc' = "read" /\ closed' = closed /\ res' = res
    /\ UNCHANGED <<phase, cancelled, db, cache, tasks, inflight, last, attempted,
                   acked, clients>>

\* StartListening: ReadMessage returns the context's error
ReadCancelled ==
    /\ kpc = "read"
    /\ cancelled
    /\ kpc' = "select"
    /\ UNCHANGED <<phase, cancelled, db, cache, tasks, res, closed, inflight, last,
                   attempted, acked, clients>>

\* what a dropped message leaves in the record of the last call
Dropped(m) ==
    [NoCall EXCEPT !.op = "drop", !.form = m.form, !.err = decodeOrder(m).err]

\* store.AddOrder(order) called by the listener for message m, with outcome r
CallAddOrder(m, r) ==
    /\ cache' = r.cache
    /\ db' = r.db
    /\ attempted' = attempted \cup {decodeOrder(m).order.id}
    /\ acked' = IF r.err = "nil"
                THEN [acked EXCEPT ![decodeOrder(m).order.id] = decodeOrder(m).order]
                ELSE acked

\* StartListening, one iteration as a whole: ReadMessage returns a message
\* that decodeOrder rejects; the message is logged and dropped
ReadUndecodable ==
    /\ kpc = "read"
    /\ \E m \in Payloads :
         /\ decodeOrder(m).err # "nil"
         /\ last' = Dropped(m)
    /\ kpc' = "select"
    /\ UNCHANGED <<phase, cancelled, db, cache, tasks, res, closed, inflight,
                   attempted, acked, clients>>

\* StartListening, one iteration as a whole: ReadMessage returns a message,
\* decodeOrder accepts it and the order goes to store.AddOrder (the cache
\* service)
ReadAndAdd ==
    /\ kpc = "read"
    /\ \E m \in Payloads :
         /\ decodeOrder(m).err = "nil"
         /\ \E r \in UNION {AddOrderOutcomes(cache, db, decodeOrder(m).order, fault) :
                               fault \in AddFaults} :
              /\ CallAddOrder(m, r)
              /\ last' = [NoCall EXCEPT !.op = "AddOrder", !.form = m.form,
                                        !.uid = decodeOrder(m).order.id,
                                        !.arg = decodeOrder(m).order,
                                        !.wrote = r.wrote, !.dbErr = r.dbErr,
                                        !.err = r.err, !.admitted = r.admitted,
                                        !.dbCalls = r.dbCalls]
    /\ kpc' = "select"
    /\ UNCHANGED <<phase, cancelled, tasks, res, closed, inflight, clients>>

\* a listener that fetches the next message while the one in hand is still
\* waiting for its AddOrder
PullWhileBusy ==
    /\ kpc \in {"read", "add"}
    /\ offset < MaxMsgs
    /\ \E m \in Topic : msg' = m
    /\ offset' = offset + 1
    /\ adds' = 0
    /\ kpc' = "decode"
    /\ UNCHANGED <<phase, cancelled, db, cache, tasks, res, closed, last,
                   attempted, acked, clients>>

\* StartListening, statement by statement: ReadMessage returns the next
\* message of the topic
Pull ==
    /\ kpc = "read"
    /\ offset < MaxMsgs
    /\ \E m \in Topic : msg' = m
    /\ offset' = offset + 1
    /\ adds' = 0
    /\ kpc' = "decode"
    /\ UNCHANGED <<phase, cancelled, db, cache, tasks, res, closed, last, attempted,
                   acked, clients>>

\* StartListening, statement by statement: decodeOrder on the message in
\* hand; on an error the message is logged and the loop continues
Decode ==
    /\ kpc = "decode"
    /\ kpc' = afterDecode(decodeOrder(msg).err)
    /\ msg' = IF kpc' \in {"decode", "add"} THEN msg ELSE NoMsg
    /\ last' = IF decodeOrder(msg).err # "nil" THEN Dropped(msg) ELSE last
    /\ UNCHANGED <<phase, cancelled, db, cache, tasks, res, closed, offset, adds,
                   attempted, acked, clients>>

\* StartListening, statement by statement: store.AddOrder on the decoded
\* order; on an error the message is logged and the loop continues
Add ==
    /\ kpc = "add"
    /\ \E r \in UNION {AddOrderOutcomes(cache, db, decodeOrder(msg).order, fault) :
                          fault \in AddFaults} :
         /\ CallAddOrder(msg, r)
         /\ last' = [NoCall EXCEPT !.op = "AddOrder",
                                   !.uid = decodeOrder(msg).order.id,
                                   !.err = r.err, !.dbCalls = r.dbCalls]
         /\ kpc' = afterAddOrder(r.err)
    /\ adds' = adds + 1
    /\ msg' = IF kpc' \in {"decode", "add"} THEN msg ELSE NoMsg
    /\ UNCHANGED <<phase, cancelled, tasks, res, closed, offset, clients>>

\* httpTransport.orderHandler for GET /api/v1/order?order_uid=<uid>
OrderHandler ==
    /\ phase = "running"
    /\ \E uid \in OrderUIDs :
         \E r \in UNION {GetOrderOutcomes(cache, db, uid, fault) : fault \in GetFaults} :
            /\ cache' = r.cache
            /\ last' = [NoCall EXCEPT !.op = "GetOrder", !.uid = uid,
                                      !.err = r.err, !.order = r.order,
                                      !.hit = r.hit, !.dbCalls = r.dbCalls,
                                      !.status = StatusOf(r.err)]
    /\ UNCHANGED <<phase, cancelled, db, tasks, res, kpc, closed, inflight,
                   attempted, acked, clients>>

\* orderHandler for a request it answers without a lookup: a method other
\* than GET, or no order_uid
OrderHandlerRejects ==
    /\ phase = "running"
    /\ \E method \in {"GET", "POST"} :
         last' = [NoCall EXCEPT !.op = "reject",
                               !.status = IF method # "GET" THEN 405 ELSE 400]
    /\ UNCHANGED <<phase, cancelled, db, cache, tasks, res, kpc, closed, inflight,
                   attempted, acked, clients>>

\* the pipeline with each iteration of the listener loop taken as one step
Next ==
    \/ Main
    \/ FetchTask
    \/ Start
    \/ Cancel
    \/ Exit
    \/ Select
    \/ ReadCancelled
    \/ ReadUndecodable
    \/ ReadAndAdd
    \/ OrderHandler
    \/ OrderHandlerRejects

Spec == Init /\ [][Next]_vars

\* the listener loop taken statement by statement, so that a cancellation or
\* the end of the process can fall between ReadMessage, decodeOrder and
\* AddOrder; no query is served meanwhile
NextListener ==
    \/ Main
    \/ FetchTask
    \/ Start
    \/ Cancel
    \/ Exit
    \/ Select
    \/ ReadCancelled
    \/ Pull
    \/ Decode
    \/ Add

SpecListener == Init /\ [][NextListener]_vars

\* the listener goroutine is scheduled fairly: each of its steps is taken
\* when it stays possible; when messages arrive, when the interrupt comes
\* and when main returns is left open
SpecListenerFair ==
    /\ SpecListener
    /\ WF_vars(Select)
    /\ WF_vars(ReadCancelled)
    /\ WF_vars(Decode)
    /\ WF_vars(Add)

\* the producer builds an order: model.NewFakeOrder on generated data, at
\* some instant
MakeOrder ==
    /\ codec.stage = "idle"
    /\ \E o \in OrderDetails, now \in Instants :
         codec' = [NoCodec EXCEPT !.stage = "made",
                                  !.order = NewFakeOrder(o, now, MaxItems)]
    /\ UNCHANGED <<phase, cancelled, db, cache, res, tasks, kpc, closed, inflight,
                   last, attempted, acked, calls>>

\* kafkaService.SendOrder: json.Marshal(order), written to the topic
SendOrder ==
    /\ codec.stage = "made"
    /\ codec' = [codec EXCEPT !.stage = "sent", !.data = Marshal(codec.order)]
    /\ UNCHANGED <<phase, cancelled, db, cache, res, tasks, kpc, closed, inflight,
                   last, attempted, acked, calls>>

\* kafkaService.decodeOrder on the value that was sent
DecodeSent ==
    /\ codec.stage = "sent"
    /\ codec' = [codec EXCEPT !.stage = "got", !.back = decodeOrder(codec.data)]
    /\ UNCHANGED <<phase, cancelled, db, cache, res, tasks, kpc, closed, inflight,
                   last, attempted, acked, calls>>

\* the codec by itself: an order is built, encoded and decoded again
NextCodec ==
    \/ MakeOrder
    \/ SendOrder
    \/ DecodeSent

SpecCodec == Init /\ [][NextCodec]_vars

\* the orders callers offer to AddOrder: well-formed orders as the decoder
\* hands them over
CallOrders == {o \in Decoded(StreamOrders) : ValidOrder(o)}

\* some caller is inside AddOrder
Adding == \E q \in Procs : calls.proc[q].op = "AddOrder" /\ calls.proc[q].pc # "idle"

\* a goroutine enters cacheService.AddOrder(o); each uid is offered once
BeginAddOrder ==
    /\ phase = "running"
    /\ \E p \in Procs, o \in CallOrders :
         /\ calls.proc[p].pc = "idle"
         /\ calls.offered[o.id] = NoOrder
         /\ calls' =
              [proc |->
                 [q \in Procs |->
                    IF q = p
                    THEN [Idle EXCEPT !.pc = "set", !.op = "AddOrder",
                                      !.uid = o.id, !.arg = o]
                    ELSE [calls.proc[q] EXCEPT
                            !.quiet = @ /\ calls.proc[q].pc = "idle"]],
               offered |-> [calls.offered EXCEPT ![o.id] = o]]
         /\ attempted' = attempted \cup {o.id}
    /\ UNCHANGED <<phase, cancelled, db, cache, res, tasks, kpc, closed, inflight,
                   last, acked, codec>>

\* cacheService.AddOrder: s.cache.Set(order.OrderID, order, 1); s.cache.Wait()
AddOrderSet ==
    /\ \E p \in Procs :
         /\ calls.proc[p].pc = "set"
         /\ cache' \in cacheSet(cache, calls.proc[p].uid, calls.proc[p].arg)
         /\ calls' = [calls EXCEPT !.proc[p].pc = "store"]
    /\ UNCHANGED <<phase, cancelled, db, res, tasks, kpc, closed, inflight, last,
                   attempted, acked, codec>>

\* cacheService.AddOrder: s.db.AddOrder(order), whose error is returned
AddOrderStore ==
    /\ \E p \in Procs :
         /\ calls.proc[p].pc = "store"
         /\ LET r == DbAddOrder(db, calls.proc[p].arg, "none")
            IN /\ db' = r.db
               /\ acked' = IF r.err = "nil"
                           THEN [acked EXCEPT ![calls.proc[p].uid] = calls.proc[p].arg]
                           ELSE acked
               /\ calls' = [calls EXCEPT !.proc[p].pc = "idle",
                                         !.proc[p].err = r.err]
    /\ UNCHANGED <<phase, cancelled, cache, res, tasks, kpc, closed, inflight,
                   last, attempted, codec>>

\* a goroutine enters cacheService.GetOrder(orderUID); quiet: the order of
\* that uid was offered before and no AddOrder runs beside this call
BeginGetOrder ==
    /\ phase = "running"
    /\ \E p \in Procs, orderUID \in OrderUIDs :
         /\ calls.proc[p].pc = "idle"
         /\ calls' = [calls EXCEPT
                        !.proc[p] =
                           [Idle EXCEPT !.pc = "lookup", !.op = "GetOrder",
                                        !.uid = orderUID,
                                        !.quiet = /\ ~Adding
                                                  /\ calls.offered[orderUID] # NoOrder]]
    /\ UNCHANGED <<phase, cancelled, db, cache, res, tasks, kpc, closed, inflight,
                   last, attempted, acked, codec>>

\* cacheService.GetOrder: s.getFromCache(orderUID); a hit is returned
GetOrderLookup ==
    /\ \E p \in Procs :
         /\ calls.proc[p].pc = "lookup"
         /\ LET hit == getFromCache(cache, calls.proc[p].uid)
            IN calls' = IF hit.found
                        THEN [calls EXCEPT !.proc[p].pc = "idle",
                                           !.proc[p].order = hit.order]
                        ELSE [calls EXCEPT !.proc[p].pc = "dbget"]
    /\ UNCHANGED <<phase, cancelled, db, cache, res, tasks, kpc, closed, inflight,
                   last, attempted, acked, codec>>

\* cacheService.GetOrder after a miss: s.db.GetOrder(orderUID); its error is
\* returned
GetOrderFetch ==
    /\ \E p \in Procs :
         /\ calls.proc[p].pc = "dbget"
         /\ LET r == DbGetOrder(db, calls.proc[p].uid, "none")
            IN calls' = IF r.err # "nil"
                        THEN [calls EXCEPT !.proc[p].pc = "idle",
                                           !.proc[p].err = r.err]
                        ELSE [calls EXCEPT !.proc[p].pc = "fill",
                                           !.proc[p].got = r.order]
    /\ UNCHANGED <<phase, cancelled, db, cache, res, tasks, kpc, closed, inflight,
                   last, attempted, acked, codec>>

\* cacheService.GetOrder: s.addToCache(orderUID, order); return order, nil
GetOrderFill ==
    /\ \E p \in Procs :
         /\ calls.proc[p].pc = "fill"
         /\ cache' \in addToCache(cache, calls.proc[p].uid, calls.proc[p].got)
         /\ calls' = [calls EXCEPT !.proc[p].pc = "idle",
                                   !.proc[p].order = calls.proc[p].got,
                                   !.proc[p].got = NoOrder]
    /\ UNCHANGED <<phase, cancelled, db, res, tasks, kpc, closed, inflight, last,
                   attempted, acked, codec>>

\* the running process with goroutines that call the cache service side by
\* side, each call a statement at a time
NextCalls ==
    \/ Main
    \/ Start
    \/ BeginAddOrder
    \/ AddOrderSet
    \/ AddOrderStore
    \/ BeginGetOrder
    \/ GetOrderLookup
    \/ GetOrderFetch
    \/ GetOrderFill

SpecCalls == Init /\ [][NextCalls]_vars

(* ------------------------------ claims --------------------------------- *)

\* the rows a committed AddOrder(o) leaves: the orders row with its delivery
\* and payment rows, and a row in items for every product
StoreHolds(d, o) ==
    /\ o.id \in DOMAIN d.orders
    /\ d.orders[o.id].track = o.track
    /\ d.orders[o.id].date_created = o.ts
    /\ d.orders[o.id].payment_id = o.pay.tx
    /\ d.orders[o.id].delivery_id \in DOMAIN d.delivery
    /\ d.delivery[d.orders[o.id].delivery_id] = o.addr
    /\ o.pay.tx \in DOMAIN d.payment
    /\ d.payment[o.pay.tx] = o.pay
    /\ \A k \in 1..Len(o.items) : o.items[k] \in DOMAIN d.items

\* C1: for every valid order o, AddOrder(o) followed immediately by
\* GetOrder(o.id) returns a value equal to o in every field, items included,
\* whether or not the store write of that AddOrder succeeded (a GetOrder
\* during which the store itself is unreachable is left aside).
C1_ReadAfterWrite ==
    [][(/\ last.op = "AddOrder"
        /\ ValidOrder(last.arg)
        /\ last'.op = "GetOrder"
        /\ last'.uid = last.uid
        /\ last'.err # "StoreError")
       => (last'.err = "nil" /\ last'.order = last.arg)]_vars

\* C2: whenever AddOrder(o) returns success the store transaction for o has
\* committed and the store contains o; AddOrder never returns success when
\* the store write failed.
C2_AckImpliesDurable ==
    last.op = "AddOrder" /\ last.err = "nil"
        => last.dbErr = "nil" /\ StoreHolds(db, last.arg)

C2_Witness ==
    /\ last.op = "AddOrder"
    /\ last.err = "nil"
    /\ last.arg.items # <<>>
    /\ StoreHolds(db, last.arg)

\* C3 as stated: for every uid that was never added, GetOrder(uid) returns the
\* NotFound outcome, after any sequence of other calls.
C3_NeverAddedIsNotFound ==
    last.op = "GetOrder" /\ last.uid \notin attempted => last.err = "NotFound"

\* C3 as amended: for every uid that was never added, GetOrder(uid) returns no
\* order: it returns NotFound, or the store's error when the store access
\* itself fails, and the cache holds no entry for the uid afterwards.
C3_NeverAddedReturnsNoOrder ==
    last.op = "GetOrder" /\ last.uid \notin attempted
        => /\ last.err \in {"NotFound", "StoreError"}
           /\ last.order = NoOrder
           /\ cache[last.uid] = NoOrder

C3_Witness ==
    /\ last.op = "GetOrder"
    /\ last.uid \notin attempted
    /\ last.err = "NotFound"
    /\ attempted # {}
    /\ Cached(cache) # {}

\* C4: for every order o whose AddOrder succeeded, a GetOrder(o.id) that
\* misses the cache (the entry was evicted) falls back to the store and, the
\* store answering, returns a value equal to o, including every item of o.
C4_EvictedReadReturnsOrder ==
    (/\ last.op = "GetOrder"
     /\ ~last.hit
     /\ acked[last.uid] # NoOrder
     /\ last.err # "StoreError")
        => (last.err = "nil" /\ last.order = acked[last.uid])

\* C5: the query surface reports a lookup that misses cache and store as a
\* 4xx result, distinct from the 5xx result it reports when the store access
\* fails.
C5_NotFoundIsClientError ==
    last.op = "GetOrder"
        => /\ last.err = "NotFound" => last.status \in 400..499
           /\ last.err = "StoreError" => last.status \in 500..599

\* C6: a record with more items than the configured maximum is never passed
\* to AddOrder: neither the cache nor the store holds an order with more items
\* than the ceiling.
C6_CeilingEnforced ==
    /\ last.op = "AddOrder" => Len(last.arg.items) <= MaxItems
    /\ \A u \in Cached(cache) : Len(cache[u].items) <= MaxItems
    /\ \A u \in OrderUIDs : acked[u] # NoOrder => Len(acked[u].items) <= MaxItems

\* C7: a payload that carries an unknown top-level field fails decoding in the
\* Stream Consumer: it is dropped and never reaches AddOrder.
C7_UnknownFieldDropped ==
    last.form = "extra" => last.op = "drop"

\* C8: when the store write inside AddOrder(o) fails, AddOrder returns the
\* error and the cache admission stays; while the entry is in the cache,
\* GetOrder(o.id) returns it although the store has no record of o.
C8_FailedWriteKeepsAdmission ==
    /\ (last.op = "AddOrder" /\ last.dbErr # "nil")
          => /\ last.err = last.dbErr
             /\ last.admitted => cache[last.uid] = last.arg
    /\ (last.op = "GetOrder" /\ last.hit /\ last.uid \notin DOMAIN db.orders)
          => /\ last.err = "nil"
             /\ last.order = cache[last.uid]
             /\ last.uid \in attempted

C8_Witness ==
    /\ last.op = "GetOrder"
    /\ last.hit
    /\ last.uid \notin DOMAIN db.orders
    /\ last.order \in Decoded(StreamOrders)

\* C9: store AddOrder is all-or-nothing: when one of its inserts or the commit
\* fails, whatever the order and the point of failure, the call returns an
\* error and the store is as it was before the call; only a call that
\* returns nil leaves rows, and then all rows of the order.
C9_AllOrNothing ==
    /\ \A o \in Decoded(StreamOrders), fault \in AddFaults :
          LET r == DbAddOrder(db, o, fault)
          IN /\ r.err # "nil" => r.db = db
             /\ r.err = "nil" => StoreHolds(r.db, o) /\ r.db = r.tx
             /\ (fault \in AddFaults \ {"none", "items"}) => r.err # "nil"
             /\ (fault = "items" /\ o.items # <<>>) => r.err # "nil"
    /\ \A u \in OrderUIDs : u \in DOMAIN db.orders <=> acked[u] # NoOrder
    /\ \A u \in DOMAIN db.orders : StoreHolds(db, acked[u])
    /\ Len(db.delivery) = Cardinality(DOMAIN db.orders)
    /\ Cardinality(DOMAIN db.payment) = Cardinality(DOMAIN db.orders)
    /\ \A c \in DOMAIN db.items :
          \E u \in DOMAIN db.orders : \E k \in 1..Len(acked[u].items) :
              acked[u].items[k] = c

C9_Witness ==
    /\ last.op = "AddOrder"
    /\ last.dbErr # "nil"
    /\ last.wrote
    /\ last.arg.items # <<>>
    /\ last.uid \notin DOMAIN db.orders
    /\ last.arg.pay.tx \notin DOMAIN db.payment
    /\ DOMAIN db.orders # {}

\* C10: when GetOrder finds the uid in the cache it returns the cached order
\* and makes no call to the Durable Store.
C10_HitSkipsStore ==
    last.op = "GetOrder" /\ last.hit
        => /\ last.dbCalls = 0
           /\ last.err = "nil"
           /\ last.order = cache[last.uid]
           /\ last.order # NoOrder

C10_Witness ==
    /\ last.op = "GetOrder"
    /\ last.hit
    /\ last.dbCalls = 0
    /\ last.order.items # <<>>

\* C11: on a cache miss GetOrder reads the store exactly once; when the store
\* returns an order, GetOrder returns exactly that order and the cache holds
\* it under the requested id afterwards; when the store has no record or
\* fails, GetOrder returns the store's error and the cache is unchanged.
C11_MissFillsCache ==
    \A uid \in OrderUIDs \ Cached(cache), fault \in GetFaults :
        \A r \in GetOrderOutcomes(cache, db, uid, fault) :
            LET s == DbGetOrder(db, uid, fault)
            IN /\ r.dbCalls = 1
               /\ s.err = "nil" => /\ r.err = "nil"
                                   /\ r.order = s.order
                                   /\ r.cache[uid] = s.order
               /\ s.err # "nil" => /\ r.err = s.err
                                   /\ r.order = NoOrder
                                   /\ r.cache = cache

\* C15: the number of orders the cache holds never exceeds the capacity
\* given at construction, whatever warm-up admissions, AddOrder calls and
\* GetOrder cache fills have happened.
C15_CacheWithinCapacity ==
    Cardinality(Cached(cache)) <= cacheSize

\* a full cache that has just taken in a new order by evicting another one
C15_Witness ==
    /\ Cardinality(Cached(cache)) = cacheSize
    /\ last.op = "AddOrder"
    /\ last.admitted
    /\ Cardinality(attempted) > cacheSize
    /\ \E u \in attempted : u # last.uid /\ cache[u] = NoOrder

\* the process has just come up: NewApp has returned, main has started the
\* listener and the transport, and no message or request was handled yet
JustStarted == phase = "running" /\ last.op = "NewApp"

\* the n most recently created orders of the store
MostRecent(d, n) ==
    {u \in DOMAIN d.orders :
        Cardinality({v \in DOMAIN d.orders :
                        d.orders[v].date_created > d.orders[u].date_created}) < n}

\* no two orders of the store were created at the same time
DistinctDates(d) ==
    \A u, v \in DOMAIN d.orders :
        u # v => d.orders[u].date_created # d.orders[v].date_created

\* GetOrder(uid), called now, is a cache hit that makes no store call
ServedFromCache(uid) ==
    \A fault \in GetFaults :
        \A r \in GetOrderOutcomes(cache, db, uid, fault) :
            r.hit /\ r.dbCalls = 0 /\ r.err = "nil" /\ r.order.id = uid

C13_WarmUpBarrier ==
    /\ (phase = "running" \/ kpc # "off") => \A u \in OrderUIDs : tasks[u] # "run"
    /\ kpc # "off" => phase = "running"
    /\ last.op \in {"AddOrder", "drop", "GetOrder", "reject"} => phase = "running"
    /\ phase = "warming" => kpc = "off" /\ last.op = "NewApp"

C13_Witness ==
    /\ JustStarted
    /\ Cached(cache) # {}
    /\ kpc = "read"
    /\ tasks = NoTasks

C19_DecodeFailureDrops ==
    /\ [][(/\ kpc = "decode"
           /\ decodeOrder(msg).err # "nil"
           /\ phase' = phase
           /\ kpc' # kpc \/ last' # last)
            => /\ kpc' = "select"
               /\ msg' = NoMsg
               /\ last' = Dropped(msg)
               /\ adds' = 0
               /\ offset' = offset
               /\ db' = db
               /\ cache' = cache
               /\ attempted' = attempted]_vars
    /\ [][(msg' # msg /\ msg' # NoMsg)
            => /\ kpc = "read"
               /\ msg = NoMsg
               /\ offset' = offset + 1
               /\ adds' = 0]_vars

C19_Witness ==
    /\ last.op = "drop"
    /\ kpc = "decode"
    /\ offset > 1
    /\ adds = 0
    /\ decodeOrder(msg).err = "nil"

\* C20: when AddOrder fails, the listener drops the message and is back at
\* its select: no message leads to more than one AddOrder call, and the
\* listener stops only because of a cancellation.
C20_AddFailureDrops ==
    /\ adds <= 1
    /\ kpc = "add" => adds = 0 /\ msg # NoMsg
    /\ (last.op = "AddOrder" /\ last.err # "nil" /\ adds = 1 /\ phase = "running")
          => /\ kpc \in {"select", "read", "stopped"}
             /\ msg = NoMsg
    /\ (last.op = "AddOrder" /\ last.err # "nil" /\ kpc = "stopped")
          => cancelled /\ closed = 1

C20_Witness ==
    /\ last.op = "AddOrder"
    /\ last.err # "nil"
    /\ kpc = "decode"
    /\ offset > 1
    /\ ~cancelled

\* C17: when the cancellation is issued while the listener is blocked in
\* ReadMessage, the listener goroutine eventually ends through its
\* ctx.Done() branch and the reader is eventually closed.
C17_BlockedReaderIsClosed ==
    (cancelled /\ kpc = "read") ~> (kpc = "stopped" /\ closed = 1)

\* C18: when the process has ended after a cancellation, it has released the
\* store connection pool and the stream connections (reader and writer), and
\* the listener was not in the middle of a message.
C18_ShutdownReleases ==
    [][(phase = "running" /\ phase' = "exited")
         => /\ res' = {}
            /\ kpc \notin {"decode", "add"}]_vars

\* C21: every well-formed order payload the listener receives for an id not
\* yet stored, with no store failure, leaves the store holding that order,
\* and a GetOrder for its id right afterwards returns the full order, items
\* included.
C21_PublishedOrderIsServed ==
    \A m \in Payloads :
        (/\ m.form = "ok"
         /\ ValidOrder(m.order)
         /\ m.order.id \notin DOMAIN db.orders)
            => \A a \in AddOrderOutcomes(cache, db, decodeOrder(m).order, "none") :
                  /\ a.err = "nil"
                  /\ StoreHolds(a.db, decodeOrder(m).order)
                  /\ \A g \in GetOrderOutcomes(a.cache, a.db, m.order.id, "none") :
                        g.err = "nil" /\ g.order = decodeOrder(m).order

\* C24: the store rejects an AddOrder whose payment transaction differs from
\* the order's uid: the call returns an error and the store is unchanged.
C24_ForeignTransactionRejected ==
    \A o \in Decoded(StreamOrders) :
        o.pay.tx # o.id
            => LET r == DbAddOrder(db, o, "none")
               IN r.err # "nil" /\ r.db = db

\* C25: cache and store never disagree on an order: an id present in both
\* the cache and the store maps to equal orders in both, whatever AddOrder
\* and GetOrder calls were made, AddOrder calls that repeat a stored id
\* included.
C25_CacheAgreesWithStore ==
    \A u \in Cached(cache) \cap DOMAIN db.orders :
        DbGetOrder(db, u, "none").err = "nil"
            => DbGetOrder(db, u, "none").order = cache[u]

\* C27: the listener handles one message at a time, in the order received:
\* it holds at most one message, ReadMessage delivers the next one only when
\* none is in hand, and every AddOrder call is for the message received
\* last and returns before another message is delivered.
C27_OneAtATimeInOrder ==
    /\ []((kpc \in {"decode", "add"}) <=> (msg # NoMsg))
    /\ [][(offset' = offset + 1)
            => /\ kpc = "read"
               /\ msg = NoMsg
               /\ msg' # NoMsg]_vars
    /\ [][(adds' = adds + 1)
            => /\ kpc = "add"
               /\ adds = 0
               /\ last'.op = "AddOrder"
               /\ last'.uid = msg.order.id
               /\ attempted' = attempted \cup {msg.order.id}
               /\ offset' = offset
               /\ msg' = NoMsg]_vars

C27_Witness ==
    /\ offset = MaxMsgs
    /\ adds = 1
    /\ last.op = "AddOrder"
    /\ Cardinality(attempted) > 1
    /\ kpc = "select"

\* C23: codec round trip: for every valid order, orders built by
\* NewFakeOrder included, decoding the encoding of the order succeeds and
\* yields an order equal to it in every field, the creation timestamp
\* included.
C23_CodecRoundTrip ==
    codec.stage = "got"
        => codec.back.err = "nil" /\ codec.back.order = codec.order

\* a caller that has returned from a call of op
Returned(p, op) == calls.proc[p].pc = "idle" /\ calls.proc[p].op = op

\* C22: concurrent AddOrder calls for distinct orders all succeed, and every
\* GetOrder call that follows them succeeds and returns the order that was
\* added under its id, under every interleaving.
C22_ConcurrentAddThenGet ==
    \A p \in Procs :
        /\ Returned(p, "AddOrder") => calls.proc[p].err = "nil"
        /\ Returned(p, "GetOrder") /\ calls.proc[p].quiet
              => /\ calls.proc[p].err = "nil"
                 /\ calls.proc[p].order = calls.offered[calls.proc[p].uid]

\* C26: under every interleaving of AddOrder(o) with GetOrder(o.id) calls,
\* every GetOrder that succeeds returns o, and once all calls have returned
\* the cache entry for o.id, if present, equals o.
C26_CacheFillRace ==
    /\ \A p \in Procs :
          Returned(p, "GetOrder") /\ calls.proc[p].err = "nil"
              => calls.proc[p].order = calls.offered[calls.proc[p].uid]
    /\ (\A p \in Procs : calls.proc[p].pc = "idle")
          => \A u \in Cached(cache) : cache[u] = calls.offered[u]

====
